---- MODULE Spec2Model ----
(***************************************************************************)
(* The six MCP tools of odoo_mcp/server.py (list_models, model_info, read, *)
(* search_count, search_read, read_group) as a state machine.  Every       *)
(* invocation runs its handler from entry to the first call on the Odoo    *)
(* client, waits for the client to return or raise, and resumes until the  *)
(* handler returns its {"success": ...} dictionary.                        *)
(***************************************************************************)
EXTENDS Integers, Sequences, FiniteSets, TLC

(* ---------------------------- bounds ----------------------------------- *)

\* number of invocations that may be in flight together
NInv == 2
\* search_count answers 0 .. MaxCount
MaxCount == 1
\* caller-supplied limit values 0 .. MaxLimit
MaxLimit == 1

Invocations == 1 .. NInv

(* ---------------------------- Python values ---------------------------- *)

\* A Python str is a sequence of chunks of text; an f-string concatenates.
\* Every Python object is one record shape so that any two are comparable:
\* kind says which of num (int, bool), str (the chunks of a str), items (the
\* elements of a list) and map (the entries of a dict) is meaningful.
NoneV == [kind |-> "none", num |-> 0, str |-> <<>>, items |-> <<>>, map |-> <<>>]
IntV(n) == [NoneV EXCEPT !.kind = "int", !.num = n]
BoolV(b) == [NoneV EXCEPT !.kind = "bool", !.num = IF b THEN 1 ELSE 0]
StrV(s) == [NoneV EXCEPT !.kind = "str", !.str = s]
ListV(l) == [NoneV EXCEPT !.kind = "list", !.items = l]
DictV(m) == [NoneV EXCEPT !.kind = "dict", !.map = m]
\* a str of one chunk
S(text) == StrV(<<text>>)

\* d[k] = v on a dict
SetItem(d, k, v) == [x \in DOMAIN d \cup {k} |-> IF x = k THEN v ELSE d[x]]

\* Python truth value testing: `not x` is Falsy(x)
Falsy(v) ==
  CASE v.kind = "none" -> TRUE
    [] v.kind \in {"int", "bool"} -> v.num = 0
    [] v.kind = "str" -> v.str = <<>>
    [] v.kind = "list" -> v.items = <<>>
    [] v.kind = "dict" -> DOMAIN v.map = {}
    [] OTHER -> FALSE

(* ---------------------------- exceptions ------------------------------- *)

NoFault == [type |-> "", msg |-> <<>>]
Raise(t, m) == [type |-> t, msg |-> m]

\* the part of the built-in class hierarchy the handlers' except clauses see
RECURSIVE IsInstance(_, _)
IsInstance(t, cls) ==
  IF t = cls THEN TRUE
  ELSE CASE t \in {"ValueError", "TypeError", "OSError", "Fault"} -> IsInstance("Exception", cls)
         [] t = "ConnectionError" -> IsInstance("OSError", cls)
         [] t = "Exception" -> IsInstance("BaseException", cls)
         [] OTHER -> FALSE

\* str(e)
StrOfExc(e) == e.msg

(* ---------------------------- int() and str() -------------------------- *)

Digits == <<"0", "1", "2", "3", "4", "5", "6", "7", "8", "9">>
IsDigit(c) == \E d \in 1 .. 10 : Digits[d] = c
DigitVal(c) == (CHOOSE d \in 1 .. 10 : Digits[d] = c) - 1

RECURSIVE LStrip(_)
LStrip(s) == IF s # <<>> /\ Head(s) = " " THEN LStrip(Tail(s)) ELSE s
RECURSIVE RStrip(_)
RStrip(s) == IF s # <<>> /\ s[Len(s)] = " " THEN RStrip(SubSeq(s, 1, Len(s) - 1)) ELSE s

RECURSIVE DigitsVal(_, _)
DigitsVal(s, acc) ==
  IF s = <<>> THEN acc ELSE DigitsVal(Tail(s), 10 * acc + DigitVal(Head(s)))

\* int(x): an int is returned as it is; a str is stripped, may carry one
\* sign and must then be a non-empty run of decimal digits, else ValueError;
\* anything else is a TypeError.  The str here is one character per chunk.
PyInt(x) ==
  IF x.kind \in {"int", "bool"} THEN [ok |-> TRUE, val |-> x.num, exc |-> NoFault]
  ELSE IF x.kind = "str" THEN
    LET t == RStrip(LStrip(x.str))
        signed == t # <<>> /\ Head(t) \in {"-", "+"}
        body == IF signed THEN Tail(t) ELSE t
    IN IF body # <<>> /\ \A k \in 1 .. Len(body) : IsDigit(body[k])
       THEN [ok |-> TRUE,
             val |-> IF signed /\ Head(t) = "-" THEN 0 - DigitsVal(body, 0) ELSE DigitsVal(body, 0),
             exc |-> NoFault]
       ELSE [ok |-> FALSE, val |-> 0,
             exc |-> Raise("ValueError", <<"invalid literal for int() with base 10: ">> \o x.str)]
  ELSE [ok |-> FALSE, val |-> 0,
        exc |-> Raise("TypeError", <<"int() argument must be a string, a bytes-like object or a real number">>)]

RECURSIVE NatToStr(_)
NatToStr(n) == IF n < 10 THEN <<Digits[n + 1]>> ELSE NatToStr(n \div 10) \o <<Digits[(n % 10) + 1]>>

\* str(n) of an int, as the f-string {record_id_int} renders it
IntToStr(n) == IF n < 0 THEN <<"-">> \o NatToStr(0 - n) ELSE NatToStr(n)

\* the f-string rendering {x} of a str or an int
Format(x) == IF x.kind = "str" THEN x.str ELSE IntToStr(x.num)

\* `lit in s` on strings, to the grain of the chunks
Contains(s, lit) == \E k \in 1 .. Len(s) : s[k] = lit

(* ---------------------------- envelopes -------------------------------- *)

\* {"success": True, "result": v} and {"success": False, "error": m}
Success(v) == [success |-> TRUE, result |-> v]
Failure(m) == [success |-> FALSE, error |-> m]

(* ---------------------------- the Odoo client -------------------------- *)

\* get_odoo_client(): the process-wide client handle
get_odoo_client == "odoo_client"

\* odoo_client.<method>(*args, **kwargs)
ClientCall(method, args, kwargs) ==
  [on |-> get_odoo_client, method |-> method, args |-> args, kwargs |-> kwargs]
NoCall == ClientCall("", <<>>, <<>>)

\* what the client did with a call: returned val, or raised exc
Returned(v) == [kind |-> "return", val |-> v, exc |-> NoFault]
Raised(e) == [kind |-> "raise", val |-> NoneV, exc |-> e]

(* ---------------------------- handler frames --------------------------- *)

\* The local variables of one run of a handler: its bound arguments, the
\* locals the handlers assign, the call it is blocked in, what the client
\* answered last (a reference into the heap when it returned), and how the
\* run ended: out holds the returned envelope, exc a fault that got out.
\* log holds what the run handed to _logger.info, in order.
IdleFrame ==
  [pc |-> "idle", at |-> 0, args |-> <<>>, record_id_int |-> 0, kwargs |-> <<>>,
   model_info |-> 0, call |-> NoCall,
   last |-> [kind |-> "", ref |-> 0, exc |-> NoFault], out |-> <<>>, exc |-> <<>>,
   log |-> <<>>]
NewFrame(bound) == [IdleFrame EXCEPT !.pc = "start", !.args = bound]

\* _logger.info(v)
logger_info(f, v) == [f EXCEPT !.log = Append(@, v)]

\* the outcomes of running a handler up to its next blocking point
CallOut(f, h, at, c) ==
  [f |-> [f EXCEPT !.pc = "wait", !.at = at, !.call = c], h |-> h, calls |-> <<c>>]
ReturnOut(f, h, env) ==
  [f |-> [f EXCEPT !.pc = "done", !.out = Append(@, env)], h |-> h, calls |-> <<>>]
PropagateOut(f, h, e) ==
  [f |-> [f EXCEPT !.pc = "done", !.exc = Append(@, e)], h |-> h, calls |-> <<>>]

\* except Exception as e: return {"success": False, "error": str(e)}
except_Exception(f, h, e) ==
  IF IsInstance(e.type, "Exception") THEN ReturnOut(f, h, Failure(StrOfExc(e)))
  ELSE PropagateOut(f, h, e)

(* ---------------------------- parameter binding ------------------------ *)

\* the defaults of the handlers' signatures
Defaults(op) ==
  CASE op = "read" -> [fields |-> NoneV]
    [] op = "search_count" -> [domain |-> ListV(<<>>)]
    [] op = "search_read" ->
         [domain |-> ListV(<<>>), fields |-> NoneV, limit |-> NoneV,
          offset |-> NoneV, order |-> NoneV]
    [] op = "read_group" ->
         [domain |-> ListV(<<>>), fields |-> ListV(<<>>), groupby |-> ListV(<<>>),
          lazy |-> BoolV(TRUE)]
    [] OTHER -> <<>>

\* Python binds a parameter the caller left out to its default
Bind(op, args) ==
  [p \in DOMAIN Defaults(op) \cup DOMAIN args |->
     IF p \in DOMAIN args THEN args[p] ELSE Defaults(op)[p]]

(* ---------------------------- the handlers ----------------------------- *)

\* A handler runs in two kinds of stretches: begin, from its entry to its
\* first call on the client (or to its return), and resume, from the
\* client's answer to the next call or to the return.

\* list_models
list_models_begin(f, h) == CallOut(f, h, 1, ClientCall("get_models", <<>>, <<>>))

list_models_resume(f, h) ==
  IF f.last.kind = "raise" THEN except_Exception(f, h, f.last.exc)
  ELSE ReturnOut(logger_info(f, h[f.last.ref]), h, Success(h[f.last.ref]))

\* model_info: model_info = odoo_client.get_model_info(model_name)
model_info_begin(f, h) ==
  CallOut(f, h, 1, ClientCall("get_model_info", <<f.args.model_name>>, <<>>))

\* model_info, had it called get_model_info again after a fault
model_info_after_info_retry(f, h) ==
  IF f.last.kind = "raise" THEN CallOut(f, h, 1, f.call)
  ELSE CallOut([f EXCEPT !.model_info = f.last.ref], h, 2,
               ClientCall("get_model_fields", <<f.args.model_name>>, <<>>))

\* model_info, after get_model_info: fields = odoo_client.get_model_fields(model_name)
model_info_after_info(f, h) ==
  IF f.last.kind = "raise" THEN except_Exception(f, h, f.last.exc)
  ELSE CallOut([f EXCEPT !.model_info = f.last.ref], h, 2,
               ClientCall("get_model_fields", <<f.args.model_name>>, <<>>))

\* model_info, had it returned the model information without the fields
model_info_after_fields_unmerged(f, h) ==
  IF f.last.kind = "raise" THEN except_Exception(f, h, f.last.exc)
  ELSE ReturnOut(logger_info(f, h[f.model_info]), h, Success(h[f.model_info]))

\* model_info, had it collected its result in one object kept for all runs
model_info_after_fields_shared(f, h) ==
  IF f.last.kind = "raise" THEN except_Exception(f, h, f.last.exc)
  ELSE IF h[1].kind # "dict"
       THEN except_Exception(f, h,
              Raise("TypeError", <<"object does not support item assignment">>))
       ELSE LET h2 == [h EXCEPT ![1] = DictV(SetItem(@.map, "fields", h[f.last.ref]))]
            IN ReturnOut(logger_info(f, h2[1]), h2, Success(h2[1]))

\* model_info, after get_model_fields: model_info["fields"] = fields writes
\* into the object get_model_info returned; the envelope carries that object
model_info_after_fields(f, h) ==
  IF f.last.kind = "raise" THEN except_Exception(f, h, f.last.exc)
  ELSE IF h[f.model_info].kind # "dict"
       THEN except_Exception(f, h,
              Raise("TypeError", <<"object does not support item assignment">>))
       ELSE LET h2 == [h EXCEPT ![f.model_info] =
                         DictV(SetItem(@.map, "fields", h[f.last.ref]))]
            IN ReturnOut(logger_info(f, h2[f.model_info]), h2, Success(h2[f.model_info]))

model_info_resume(f, h) ==
  IF f.at = 1 THEN model_info_after_info(f, h) ELSE model_info_after_fields(f, h)

\* read, had it only the except ValueError clause
read_except_narrow(f, h, e) ==
  IF IsInstance(e.type, "ValueError")
  THEN ReturnOut(f, h, Failure(<<"Invalid record ID", ": ">> \o Format(f.args.record_id)
                               \o <<". Must be a valid integer.">>))
  ELSE PropagateOut(f, h, e)

\* read: the two except clauses, in order
read_except(f, h, e) ==
  IF IsInstance(e.type, "ValueError")
  THEN ReturnOut(f, h, Failure(<<"Invalid record ID", ": ">> \o Format(f.args.record_id)
                               \o <<". Must be a valid integer.">>))
  ELSE except_Exception(f, h, e)

\* read, had it passed record_id on without converting it
read_begin_unconverted(f, h) ==
  CallOut(f, h, 1,
          ClientCall("read_records",
                     <<f.args.model_name, ListV(<<f.args.record_id>>), f.args.fields>>,
                     <<>>))

\* read: record_id_int = int(record_id), then read_records
read_begin(f, h) ==
  LET r == PyInt(f.args.record_id)
  IN IF ~r.ok THEN read_except(f, h, r.exc)
     ELSE CallOut([f EXCEPT !.record_id_int = r.val], h, 1,
                  ClientCall("read_records",
                             <<f.args.model_name, ListV(<<IntV(r.val)>>), f.args.fields>>,
                             <<>>))

\* read, had it not looked at whether the record came back
read_resume_unchecked(f, h) ==
  IF f.last.kind = "raise" THEN read_except(f, h, f.last.exc)
  ELSE ReturnOut(logger_info(f, h[f.last.ref]), h, Success(h[f.last.ref]))

\* read: _logger.info(record); if not record: ... not found ...; else success
read_resume(f, h) ==
  IF f.last.kind = "raise" THEN read_except(f, h, f.last.exc)
  ELSE IF Falsy(h[f.last.ref])
       THEN ReturnOut(logger_info(f, h[f.last.ref]), h,
                      Failure(<<"Record ">> \o IntToStr(f.record_id_int)
                              \o <<" ", "not found", " in model ">>
                              \o f.args.model_name.str \o <<".">>))
       ELSE ReturnOut(logger_info(f, h[f.last.ref]), h, Success(h[f.last.ref]))

\* search_count
search_count_begin(f, h) ==
  CallOut(f, h, 1, ClientCall("search_count", <<f.args.model_name, f.args.domain>>, <<>>))

search_count_resume(f, h) ==
  IF f.last.kind = "raise" THEN except_Exception(f, h, f.last.exc)
  ELSE ReturnOut(logger_info(f, h[f.last.ref]), h, Success(h[f.last.ref]))

\* search_read, had it tested the options for truth (if limit:)
search_read_kwargs_truthy(a) ==
  LET k1 == IF ~Falsy(a.fields) THEN SetItem(<<>>, "fields", a.fields) ELSE <<>>
      k2 == IF ~Falsy(a.limit) THEN SetItem(k1, "limit", a.limit) ELSE k1
      k3 == IF ~Falsy(a.offset) THEN SetItem(k2, "offset", a.offset) ELSE k2
  IN IF ~Falsy(a.order) THEN SetItem(k3, "order", a.order) ELSE k3

\* search_read: kwargs = {}, filled with the options that are not None
search_read_kwargs(a) ==
  LET k1 == IF a.fields # NoneV THEN SetItem(<<>>, "fields", a.fields) ELSE <<>>
      k2 == IF a.limit # NoneV THEN SetItem(k1, "limit", a.limit) ELSE k1
      k3 == IF a.offset # NoneV THEN SetItem(k2, "offset", a.offset) ELSE k2
  IN IF a.order # NoneV THEN SetItem(k3, "order", a.order) ELSE k3

search_read_begin(f, h) ==
  LET kw == search_read_kwargs(f.args)
  IN CallOut([f EXCEPT !.kwargs = kw], h, 1,
             ClientCall("execute_method",
                        <<f.args.model_name, S("search_read"), f.args.domain>>, kw))

\* search_read, had it not logged its results
search_read_resume_unlogged(f, h) ==
  IF f.last.kind = "raise" THEN except_Exception(f, h, f.last.exc)
  ELSE ReturnOut(f, h, Success(h[f.last.ref]))

search_read_resume(f, h) ==
  IF f.last.kind = "raise" THEN except_Exception(f, h, f.last.exc)
  ELSE ReturnOut(logger_info(f, h[f.last.ref]), h, Success(h[f.last.ref]))

\* read_group, had it filled kwargs the way search_read does
read_group_kwargs_conditional(a) ==
  LET k1 == SetItem(<<>>, "fields", a.fields)
      k2 == IF a.groupby # ListV(<<>>) THEN SetItem(k1, "groupby", a.groupby) ELSE k1
  IN IF a.lazy # BoolV(TRUE) THEN SetItem(k2, "lazy", a.lazy) ELSE k2

\* read_group: kwargs always carries fields, groupby and lazy
read_group_kwargs(a) ==
  SetItem(SetItem(SetItem(<<>>, "fields", a.fields), "groupby", a.groupby), "lazy", a.lazy)

\* read_group, had it no check of fields
read_group_begin_unguarded(f, h) ==
  LET kw == read_group_kwargs(f.args)
  IN CallOut([f EXCEPT !.kwargs = kw], h, 1,
             ClientCall("execute_method",
                        <<f.args.model_name, S("read_group"), f.args.domain>>, kw))

\* read_group: the check of fields stands before the try block
read_group_begin(f, h) ==
  IF Falsy(f.args.fields)
  THEN ReturnOut(f, h, Failure(<<"The 'fields' parameter must not be empty">>))
  ELSE LET kw == read_group_kwargs(f.args)
       IN CallOut([f EXCEPT !.kwargs = kw], h, 1,
                  ClientCall("execute_method",
                             <<f.args.model_name, S("read_group"), f.args.domain>>, kw))

read_group_resume(f, h) ==
  IF f.last.kind = "raise" THEN except_Exception(f, h, f.last.exc)
  ELSE ReturnOut(logger_info(f, h[f.last.ref]), h, Success(h[f.last.ref]))

Ops == {"list_models", "model_info", "read", "search_count", "search_read", "read_group"}

\* one stretch of the handler of op
Step(op, f, h) ==
  CASE op = "list_models" ->
         IF f.pc = "start" THEN list_models_begin(f, h) ELSE list_models_resume(f, h)
    [] op = "model_info" ->
         IF f.pc = "start" THEN model_info_begin(f, h) ELSE model_info_resume(f, h)
    [] op = "read" ->
         IF f.pc = "start" THEN read_begin(f, h) ELSE read_resume(f, h)
    [] op = "search_count" ->
         IF f.pc = "start" THEN search_count_begin(f, h) ELSE search_count_resume(f, h)
    [] op = "search_read" ->
         IF f.pc = "start" THEN search_read_begin(f, h) ELSE search_read_resume(f, h)
    [] op = "read_group" ->
         IF f.pc = "start" THEN read_group_begin(f, h) ELSE read_group_resume(f, h)

\* The client answers the call the frame is blocked in.  A returned object
\* is a new object on the heap, referred to by the frame.
Alloc(h) == Len(h) + 1

Respond(f, h, r) ==
  IF r.kind = "return"
  THEN [f |-> [f EXCEPT !.pc = "ret",
                        !.last = [kind |-> "return", ref |-> Alloc(h), exc |-> NoFault]],
        h |-> Append(h, r.val)]
  ELSE [f |-> [f EXCEPT !.pc = "ret",
                        !.last = [kind |-> "raise", ref |-> 0, exc |-> r.exc]],
        h |-> h]

(* ---------------------------- inputs ----------------------------------- *)

Models == {S("res.partner"), S("sale.order")}
RecordIds ==
  {IntV(5), StrV(<<"4", "2">>), StrV(<<" ", "7", " ">>), StrV(<<"-", "3">>),
   StrV(<<"a", "b", "c">>), StrV(<<"1", ".", "5">>), StrV(<<>>)}
FieldLists == {ListV(<<>>), ListV(<<S("name")>>)}
Domains == {ListV(<<>>), ListV(<<ListV(<<S("is_company"), S("="), BoolV(TRUE)>>)>>)}
Limits == {NoneV} \cup {IntV(n) : n \in 0 .. MaxLimit}
Offsets == {IntV(0)}
Orders == {S("name ASC")}
GroupBys == {ListV(<<>>), ListV(<<S("partner_id")>>)}
Lazies == {BoolV(FALSE), NoneV}

\* a required argument, an argument the caller may leave out, and their union
Arg(name, vals) == {[x \in {name} |-> v] : v \in vals}
Opt(name, vals) == {<<>>} \cup Arg(name, vals)
Join(a, b) == [x \in DOMAIN a \cup DOMAIN b |-> IF x \in DOMAIN a THEN a[x] ELSE b[x]]

Request(op, args) == [op |-> op, args |-> args]
NoRequest == Request("", <<>>)

Requests ==
  {Request("list_models", <<>>)}
  \cup {Request("model_info", m) : m \in Arg("model_name", Models)}
  \cup {Request("read", Join(m, Join(r, fl))) :
          m \in Arg("model_name", Models), r \in Arg("record_id", RecordIds),
          fl \in Opt("fields", FieldLists \cup {NoneV})}
  \cup {Request("search_count", Join(m, d)) :
          m \in Arg("model_name", Models), d \in Opt("domain", Domains)}
  \cup {Request("search_read", Join(m, Join(d, Join(fl, Join(l, Join(o, od)))))) :
          m \in Arg("model_name", Models), d \in Opt("domain", Domains),
          fl \in Opt("fields", FieldLists \cup {NoneV}), l \in Opt("limit", Limits),
          o \in Opt("offset", Offsets), od \in Opt("order", Orders)}
  \cup {Request("read_group", Join(m, Join(d, Join(fl, Join(g, lz))))) :
          m \in Arg("model_name", Models), d \in Opt("domain", {ListV(<<>>)}),
          fl \in Opt("fields", FieldLists), g \in Opt("groupby", GroupBys),
          lz \in Opt("lazy", Lazies)}

\* the requests of the runs with several invocations in flight
ConcRequests ==
  {Request("list_models", <<>>),
   Request("model_info", [model_name |-> S("res.partner")]),
   Request("read", [model_name |-> S("res.partner"), record_id |-> StrV(<<"4", "2">>)]),
   Request("search_count", [model_name |-> S("res.partner")]),
   Request("search_read", [model_name |-> S("res.partner"), limit |-> IntV(0)]),
   Request("read_group", [model_name |-> S("sale.order"),
                          fields |-> ListV(<<S("amount_total:sum")>>)])}

\* what the client may return from each of its methods
OdooRecord == DictV([id |-> IntV(42), name |-> S("Azure Interior")])
Returns(method) ==
  CASE method = "get_models" ->
         {DictV(SetItem(<<>>, "res.partner", DictV([name |-> S("Contact")])))}
    [] method = "get_model_info" ->
         {DictV([model |-> S("res.partner"), name |-> S("Contact")]),
          DictV([name |-> S("Contact"), fields |-> S("stale")]),
          NoneV}
    [] method = "get_model_fields" ->
         {DictV([name |-> DictV([type |-> S("char")])]), DictV(<<>>)}
    [] method = "read_records" -> {ListV(<<OdooRecord>>), ListV(<<>>)}
    [] method = "search_count" -> {IntV(n) : n \in 0 .. MaxCount}
    [] method = "execute_method" -> {ListV(<<OdooRecord>>), ListV(<<>>)}
    [] OTHER -> {}

\* the faults the client may raise
Faults ==
  {Raise("ValueError", <<"Invalid field">>),
   Raise("ConnectionError", <<"Connection refused">>),
   Raise("Fault", <<"Access Denied">>)}
ConcFaults == {Raise("Fault", <<"Access Denied">>)}

(* ---------------------------- state ------------------------------------ *)

VARIABLES
  req,     \* req[i]: the request of invocation i (NoRequest before it arrives)
  frames,  \* frames[i]: the frame of the handler run of invocation i
  heap,    \* the objects the client returned, in order of allocation
  calls,   \* calls[i]: the calls invocation i made on the client, in order
  resp     \* resp[i]: the client's answers to invocation i, in order

vars == <<req, frames, heap, calls, resp>>

Init ==
  /\ req = [i \in Invocations |-> NoRequest]
  /\ frames = [i \in Invocations |-> IdleFrame]
  /\ heap = <<>>
  /\ calls = [i \in Invocations |-> <<>>]
  /\ resp = [i \in Invocations |-> <<>>]

(* ---------------------------- actions ---------------------------------- *)

\* the transport calls the tool of request r with r's arguments
Invoke(i, R) ==
  /\ req[i] = NoRequest
  /\ \E r \in R :
       /\ req' = [req EXCEPT ![i] = r]
       /\ frames' = [frames EXCEPT ![i] = NewFrame(Bind(r.op, r.args))]
  /\ UNCHANGED <<heap, calls, resp>>

\* the handler of invocation i runs its next stretch
Handler(i) ==
  /\ frames[i].pc \in {"start", "ret"}
  /\ LET s == Step(req[i].op, frames[i], heap)
     IN /\ frames' = [frames EXCEPT ![i] = s.f]
        /\ heap' = s.h
        /\ calls' = [calls EXCEPT ![i] = @ \o s.calls]
  /\ UNCHANGED <<req, resp>>

list_models(i) ==
  /\ req[i].op = "list_models"
  /\ Handler(i)

model_info(i) ==
  /\ req[i].op = "model_info"
  /\ Handler(i)

read(i) ==
  /\ req[i].op = "read"
  /\ Handler(i)

search_count(i) ==
  /\ req[i].op = "search_count"
  /\ Handler(i)

search_read(i) ==
  /\ req[i].op = "search_read"
  /\ Handler(i)

read_group(i) ==
  /\ req[i].op = "read_group"
  /\ Handler(i)

\* the client answers r to the call invocation i is blocked in
Answer(i, r) ==
  LET s == Respond(frames[i], heap, r)
  IN /\ frames' = [frames EXCEPT ![i] = s.f]
     /\ heap' = s.h
     /\ resp' = [resp EXCEPT ![i] = Append(@, r)]
     /\ UNCHANGED <<req, calls>>

OdooReturns(i) ==
  /\ frames[i].pc = "wait"
  /\ \E v \in Returns(frames[i].call.method) : Answer(i, Returned(v))

OdooRaises(i, F) ==
  /\ frames[i].pc = "wait"
  /\ \E e \in F : Answer(i, Raised(e))

\* one invocation, any request
Next ==
  \E i \in {1} :
    \/ Invoke(i, Requests)
    \/ list_models(i)
    \/ model_info(i)
    \/ read(i)
    \/ search_count(i)
    \/ search_read(i)
    \/ read_group(i)
    \/ OdooReturns(i)
    \/ OdooRaises(i, Faults)

Spec == Init /\ [][Next]_vars

\* NInv invocations in flight together
NextConc ==
  \E i \in Invocations :
    \/ Invoke(i, ConcRequests)
    \/ list_models(i)
    \/ model_info(i)
    \/ read(i)
    \/ search_count(i)
    \/ search_read(i)
    \/ read_group(i)
    \/ OdooReturns(i)
    \/ OdooRaises(i, ConcFaults)

SpecConc == Init /\ [][NextConc]_vars

TypeOK ==
  \A i \in Invocations :
    /\ frames[i].pc \in {"idle", "start", "wait", "ret", "done"}
    /\ req[i].op \in Ops \cup {""}
    /\ Len(frames[i].out) + Len(frames[i].exc) <= 1

(* ---------------------------- properties ------------------------------- *)

Done(i) == frames[i].pc = "done"
Last(s) == s[Len(s)]
IsSuccess(e) == DOMAIN e = {"success", "result"} /\ e.success = TRUE
IsFailure(e) == DOMAIN e = {"success", "error"} /\ e.success = FALSE
\* the client answered invocation i, and every answer was a return
AllReturned(i) ==
  resp[i] # <<>> /\ \A k \in 1 .. Len(resp[i]) : resp[i][k].kind = "return"

\* C1: every invocation of any of the six tools, whatever its arguments and
\* whatever the client returns or raises, ends with exactly one envelope,
\* which is either success=true with a result and no error key or
\* success=false with an error and no result key; no fault leaves the
\* handler, and an invocation that has not ended has produced no envelope.
C1_ExactlyOneEnvelope ==
  \A i \in Invocations :
    /\ frames[i].exc = <<>>
    /\ Done(i) => /\ Len(frames[i].out) = 1
                  /\ IsSuccess(frames[i].out[1]) # IsFailure(frames[i].out[1])
    /\ ~Done(i) => frames[i].out = <<>>

\* C1 witness: a read whose client call raised a fault that is no ValueError
\* has ended with a failure envelope
C1_Witness ==
  \E i \in Invocations :
    /\ Done(i) /\ req[i].op = "read" /\ resp[i] # <<>>
    /\ Last(resp[i]).kind = "raise" /\ Last(resp[i]).exc.type = "ConnectionError"
    /\ Len(frames[i].out) = 1 /\ IsFailure(frames[i].out[1])

\* C2: for all tools, when the client raises a fault during the call, the
\* envelope is the failure whose error is the fault's message, unmodified.
C2_FaultMessageUnmodified ==
  \A i \in Invocations :
    (Done(i) /\ resp[i] # <<>> /\ Last(resp[i]).kind = "raise")
      => frames[i].out = <<Failure(Last(resp[i]).exc.msg)>>

\* the record ids of the inputs that int() does not accept
NotIntegers == {StrV(<<"a", "b", "c">>), StrV(<<"1", ".", "5">>), StrV(<<>>)}

\* C3: read with a record_id that does not parse to an integer never calls
\* the client, and ends with a failure whose error contains
\* "Invalid record ID".
C3_InvalidRecordId ==
  \A i \in Invocations :
    (req[i].op = "read" /\ req[i].args.record_id \in NotIntegers)
      => /\ calls[i] = <<>>
         /\ resp[i] = <<>>
         /\ frames[i].pc \in {"start", "done"}
         /\ Done(i) => /\ Len(frames[i].out) = 1
                       /\ IsFailure(frames[i].out[1])
                       /\ Contains(frames[i].out[1].error, "Invalid record ID")

\* C3 witness: read of record_id "abc" has ended
C3_Witness ==
  \E i \in Invocations :
    /\ Done(i) /\ req[i].op = "read"
    /\ req[i].args.record_id = StrV(<<"a", "b", "c">>)
    /\ frames[i].out # <<>>

\* C4: a read whose lookup returned an empty sequence ends with a failure
\* whose error contains "not found", and every success of read carries a
\* non-empty sequence of records.
C4_NotFound ==
  \A i \in Invocations :
    (req[i].op = "read" /\ Done(i))
      => /\ (resp[i] # <<>> /\ Last(resp[i]) = Returned(ListV(<<>>)))
              => /\ Len(frames[i].out) = 1
                 /\ IsFailure(frames[i].out[1])
                 /\ Contains(frames[i].out[1].error, "not found")
         /\ \A k \in 1 .. Len(frames[i].out) :
              IsSuccess(frames[i].out[k])
                => /\ frames[i].out[k].result.kind = "list"
                   /\ frames[i].out[k].result.items # <<>>

\* C4 witness: a read with a parsable record_id whose lookup returned the
\* empty list has ended
C4_Witness ==
  \E i \in Invocations :
    /\ Done(i) /\ req[i].op = "read"
    /\ req[i].args.record_id = StrV(<<"4", "2">>)
    /\ resp[i] = <<Returned(ListV(<<>>))>>

\* C5: read_group with an empty fields list (given empty, or left to its
\* default) never calls the client, whatever model_name, domain, groupby
\* and lazy are, and ends at once with a failure.
C5_EmptyFieldsFailsFast ==
  \A i \in Invocations :
    (req[i].op = "read_group"
       /\ ("fields" \in DOMAIN req[i].args => req[i].args.fields = ListV(<<>>)))
      => /\ calls[i] = <<>>
         /\ resp[i] = <<>>
         /\ frames[i].pc \in {"start", "done"}
         /\ Done(i) => /\ Len(frames[i].out) = 1
                       /\ IsFailure(frames[i].out[1])

\* C5 witness: read_group with fields=[] and a groupby has ended
C5_Witness ==
  \E i \in Invocations :
    /\ Done(i) /\ req[i].op = "read_group"
    /\ "fields" \in DOMAIN req[i].args /\ req[i].args.fields = ListV(<<>>)
    /\ "groupby" \in DOMAIN req[i].args /\ req[i].args.groupby # ListV(<<>>)
    /\ frames[i].out # <<>>

SearchReadOptions == {"fields", "limit", "offset", "order"}

\* C6: search_read makes its call as soon as it runs, and the options of
\* that call hold each of fields, limit, offset and order exactly when the
\* caller gave it with a value that is not None, with the value unchanged;
\* an option that was not given is no key of the options at all, and an
\* empty value that was given (fields=[], limit=0) is forwarded.
C6_SearchReadOptions ==
  \A i \in Invocations :
    (req[i].op = "search_read" /\ frames[i].pc # "start")
      => /\ Len(calls[i]) = 1
         /\ calls[i][1].method = "execute_method"
         /\ DOMAIN calls[i][1].kwargs \subseteq SearchReadOptions
         /\ \A p \in SearchReadOptions :
              /\ p \in DOMAIN calls[i][1].kwargs
                   <=> (p \in DOMAIN req[i].args /\ req[i].args[p] # NoneV)
              /\ p \in DOMAIN calls[i][1].kwargs
                   => calls[i][1].kwargs[p] = req[i].args[p]

\* C6 witness: search_read was called with fields=[] and limit=0 and
\* without offset, and forwarded exactly fields and limit
C6_Witness ==
  \E i \in Invocations :
    /\ req[i].op = "search_read" /\ Len(calls[i]) = 1
    /\ DOMAIN req[i].args = {"model_name", "fields", "limit"}
    /\ req[i].args.fields = ListV(<<>>) /\ req[i].args.limit = IntV(0)
    /\ DOMAIN calls[i][1].kwargs = {"fields", "limit"}

\* the optional parameters the claim names, per tool
OptionalParams(op) ==
  CASE op = "read" -> {"fields"}
    [] op = "search_count" -> {"domain"}
    [] op = "search_read" -> SearchReadOptions
    [] op = "read_group" -> {"groupby", "lazy"}
    [] OTHER -> {}

\* whether call c of tool op carries a value for the tool's parameter p:
\* read.fields is the third positional argument of read_records,
\* search_count.domain the second of search_count, the others are options
Forwards(op, c, p) ==
  CASE op = "read" -> Len(c.args) >= 3
    [] op = "search_count" -> Len(c.args) >= 2
    [] OTHER -> p \in DOMAIN c.kwargs

\* C7, as claimed: for every tool and every optional parameter (read.fields,
\* search_count.domain, search_read.fields/limit/offset/order,
\* read_group.groupby/lazy), a parameter the caller did not give is not
\* forwarded to the client with a placeholder value.
C7_AbsentNotForwarded ==
  \A i \in Invocations :
    \A k \in 1 .. Len(calls[i]) :
      \A p \in OptionalParams(req[i].op) :
        p \notin DOMAIN req[i].args => ~Forwards(req[i].op, calls[i][k], p)

\* C7, amended: of these parameters only those of search_read are left out
\* of the call when the caller did not give them; read forwards fields=None,
\* search_count forwards domain=[], and read_group forwards groupby=[] and
\* lazy=True for a parameter the caller did not give.
C7_AbsentForwardedAsDefault ==
  \A i \in Invocations :
    \A k \in 1 .. Len(calls[i]) :
      LET c == calls[i][k]
          given == DOMAIN req[i].args
      IN /\ req[i].op = "search_read"
              => \A p \in SearchReadOptions \ given : p \notin DOMAIN c.kwargs
         /\ (req[i].op = "read" /\ "fields" \notin given)
              => (Len(c.args) = 3 /\ c.args[3] = NoneV)
         /\ (req[i].op = "search_count" /\ "domain" \notin given)
              => (Len(c.args) = 2 /\ c.args[2] = ListV(<<>>))
         /\ (req[i].op = "read_group" /\ "groupby" \notin given)
              => ("groupby" \in DOMAIN c.kwargs /\ c.kwargs.groupby = ListV(<<>>))
         /\ (req[i].op = "read_group" /\ "lazy" \notin given)
              => ("lazy" \in DOMAIN c.kwargs /\ c.kwargs.lazy = BoolV(TRUE))

\* C7 witness: read_group was called with fields only and has made its call
C7_Witness ==
  \E i \in Invocations :
    /\ req[i].op = "read_group" /\ Len(calls[i]) = 1
    /\ DOMAIN req[i].args = {"model_name", "fields"}
    /\ DOMAIN calls[i][1].kwargs = {"fields", "groupby", "lazy"}

\* C8: when every call on the client returned (for read: returned a
\* non-empty answer; for model_info: the model information is a mapping),
\* the envelope is the success whose result is what the client returned:
\* the returned value itself for list_models, read, search_count,
\* search_read and read_group, and for model_info the returned model
\* information with the returned field definitions under the key "fields"
\* and every other key as returned.
C8_ResultIsRawReturn ==
  \A i \in Invocations :
    (Done(i) /\ AllReturned(i))
      => IF req[i].op = "model_info"
         THEN resp[i][1].val.kind = "dict"
                => /\ Len(resp[i]) = 2
                   /\ Len(frames[i].out) = 1
                   /\ IsSuccess(frames[i].out[1])
                   /\ LET res == frames[i].out[1].result
                          info == resp[i][1].val.map
                      IN /\ res.kind = "dict"
                         /\ DOMAIN res.map = DOMAIN info \cup {"fields"}
                         /\ res.map["fields"] = resp[i][2].val
                         /\ \A x \in DOMAIN info \ {"fields"} : res.map[x] = info[x]
         ELSE (req[i].op = "read" => ~Falsy(resp[i][1].val))
                => frames[i].out = <<Success(resp[i][1].val)>>

\* C8 witness: a model_info whose model information already had a "fields"
\* key has ended in success
C8_Witness ==
  \E i \in Invocations :
    /\ Done(i) /\ req[i].op = "model_info" /\ AllReturned(i)
    /\ resp[i][1].val.kind = "dict" /\ "fields" \in DOMAIN resp[i][1].val.map
    /\ Len(frames[i].out) = 1 /\ IsSuccess(frames[i].out[1])

\* the run of request r on its own: the handler's stretches with the
\* answers rs in between and a heap of its own
RECURSIVE RunFrom(_, _, _, _)
RunFrom(op, f, h, rs) ==
  IF f.pc \in {"start", "ret"}
  THEN LET s == Step(op, f, h) IN RunFrom(op, s.f, s.h, rs)
  ELSE IF f.pc = "wait" /\ rs # <<>>
       THEN LET s == Respond(f, h, Head(rs)) IN RunFrom(op, s.f, s.h, Tail(rs))
       ELSE f
RunAlone(r, rs) == RunFrom(r.op, NewFrame(Bind(r.op, r.args)), <<>>, rs)

\* C9: with invocations interleaved in any way, each ends with the envelope
\* it produces when it runs alone with the same arguments and the same
\* answers of the client.
C9_Isolation ==
  \A i \in Invocations :
    Done(i) => LET a == RunAlone(req[i], resp[i])
               IN /\ a.pc = "done"
                  /\ frames[i].out = a.out
                  /\ frames[i].exc = a.exc

\* C9 witness: two model_info invocations ended in success after the client
\* had answered the first call of the one between the two calls of the other
C9_Witness ==
  \E i, j \in Invocations :
    /\ i # j /\ Done(i) /\ Done(j)
    /\ req[i].op = "model_info" /\ req[j].op = "model_info"
    /\ frames[i].model_info = 1 /\ frames[j].model_info = 2
    /\ resp[i][1] # resp[j][1]
    /\ frames[i].out # <<>> /\ IsSuccess(frames[i].out[1])
    /\ frames[j].out # <<>> /\ IsSuccess(frames[j].out[1])

\* C10, as claimed: every invocation makes at most one call on the client.
C10_AtMostOneCall ==
  \A i \in Invocations : Len(calls[i]) <= 1

\* C10, amended: every invocation makes at most one call on the client,
\* except model_info, which makes at most two (get_model_info, then
\* get_model_fields); a call follows only returns, never a fault, so a
\* fault is the answer to the invocation's last call.
C10_CallsBounded ==
  \A i \in Invocations :
    /\ Len(calls[i]) <= (IF req[i].op = "model_info" THEN 2 ELSE 1)
    /\ Len(resp[i]) <= Len(calls[i])
    /\ \A k \in 1 .. Len(resp[i]) :
         resp[i][k].kind = "raise" => (k = Len(resp[i]) /\ Len(calls[i]) = k)

\* C10 witness: a model_info has ended after two calls, the second of which
\* raised
C10_Witness ==
  \E i \in Invocations :
    /\ Done(i) /\ req[i].op = "model_info"
    /\ Len(calls[i]) = 2 /\ calls[i][2].method = "get_model_fields"
    /\ Len(resp[i]) = 2 /\ resp[i][2].kind = "raise"

\* C11, as claimed: every invocation that has ended has been logged: with
\* its result when it ended in success, with its error when it ended in
\* failure (faults of the client and local validation failures alike).
C11_EveryCompletionLogged ==
  \A i \in Invocations :
    (Done(i) /\ Len(frames[i].out) = 1)
      => IF IsSuccess(frames[i].out[1])
         THEN frames[i].log = <<frames[i].out[1].result>>
         ELSE frames[i].log = <<StrV(frames[i].out[1].error)>>

\* C11, amended: an invocation logs once, the value the client returned (for
\* model_info the merged model information), and only when its calls on the
\* client all returned: an invocation that ended in success has logged
\* exactly its result; one that ended in failure has logged nothing, except
\* a read whose lookup came back empty, which has logged the empty answer
\* and not the error; an invocation that has not ended has logged nothing.
C11_ResultsLogged ==
  \A i \in Invocations :
    /\ ~Done(i) => frames[i].log = <<>>
    /\ (Done(i) /\ Len(frames[i].out) = 1)
         => IF IsSuccess(frames[i].out[1])
            THEN frames[i].log = <<frames[i].out[1].result>>
            ELSE IF req[i].op = "read" /\ AllReturned(i)
                 THEN frames[i].log = <<resp[i][1].val>> /\ Falsy(resp[i][1].val)
                 ELSE frames[i].log = <<>>

\* C11 witness: a search_read ended in success with its result logged
C11_Witness ==
  \E i \in Invocations :
    /\ Done(i) /\ req[i].op = "search_read"
    /\ Len(frames[i].out) = 1 /\ IsSuccess(frames[i].out[1])
    /\ frames[i].log = <<frames[i].out[1].result>>

====
